---- MODULE Spec2Model ----
(***************************************************************************)
(* Model of src/scraper.py: the phone normaliser (clean_phone_number), the *)
(* record extractor (extract_business_info), the block check               *)
(* (is_captcha_page), the numbered-page driver loop and persistence step   *)
(* (scrape_google) and the process entry point (main).                     *)
(*                                                                         *)
(* Text is modelled as a sequence of one-character strings, so that        *)
(* stripping, prefix tests and length tests are computed as the code       *)
(* computes them.                                                          *)
(*                                                                         *)
(* PHONE_REGEX (lines 24-35) as written has one closing parenthesis too    *)
(* many and re.compile rejects it; the model takes the pattern with the    *)
(* evidently intended grouping (one more "(?:" in front) and represents    *)
(* its matches by the strings of RawPhones, each of which that pattern     *)
(* matches in full.                                                        *)
(***************************************************************************)
EXTENDS Integers, Sequences, FiniteSets, TLC

VARIABLES
    pc,                 \* position of the process: see PcValues
    query,              \* the query given to scrape_google, after strip()
    page_num,           \* loop variable of "for page_num in range(MAX_PAGES)"
    remaining,          \* items of unique_items not yet processed on this page
    results,            \* the accepted record list
    successful_pages,   \* pages whose extraction loop completed
    log,                \* kind of the last line logged by the driver
    navigated,          \* history: page indexes passed to page.goto, in order
    starts,             \* history: the start= offsets of the URLs navigated to
    slept,              \* half-seconds slept since the last navigation
    offered,            \* history: (name, phone) of the qualifying items processed
    blockedAt,          \* history: page indexes whose block check was positive
    ending,             \* history: how the driver loop ended
    file,               \* what the persistence step wrote to DATA_DIR
    returned,           \* the filename scrape_google returned
    exit_code,          \* the exit status of the process, "running" until it exits
    prev,               \* PairSpec: ending and report of the session run before
    inp,                \* PhoneSpec: the string handed to clean_phone_number
    out1,               \* PhoneSpec: clean_phone_number(inp)
    out2,               \* PhoneSpec: clean_phone_number(out1)
    found_item,         \* ExtractSpec: the item handed to extract_business_info
    business_info,      \* ExtractSpec: extract_business_info(found_item)
    probe,              \* BlockSpec: the page handed to is_captcha_page
    verdict,            \* BlockSpec: is_captcha_page(page), "unset" before
    soup,               \* EnumSpec: what each selector of selectors_to_try matches
    unique_items,       \* EnumSpec: the items the page's item loop will process
    environ,            \* StartSpec: os.environ's MAX_PAGES, None when absent
    startup,            \* StartSpec: where start-up stands
    max_pages,          \* StartSpec: the global MAX_PAGES, {} before line 21
    startup_log         \* StartSpec: what main logged about MAX_PAGES

vars == <<pc, query, page_num, remaining, results,
          successful_pages, log, navigated, starts, slept, offered,
          blockedAt, ending, file, returned, exit_code, prev, inp, out1, out2, found_item, business_info, probe, verdict,
          soup, unique_items, environ, startup, max_pages, startup_log>>

sessionVars == <<pc, query, page_num, remaining, results,
                 successful_pages, log, navigated, starts, slept, offered,
                 blockedAt, ending, file, returned, exit_code, prev>>

\* What only the pass over one page changes.
pageVars == <<starts, slept, offered>>

phoneVars == <<inp, out1, out2>>

extractVars == <<found_item, business_info>>

blockVars == <<probe, verdict>>

\* The variables of the specifications that exercise one function alone.
pureVars == <<inp, out1, out2, found_item, business_info, probe, verdict,
              soup, unique_items, environ, startup, max_pages, startup_log>>

startVars == <<environ, startup, max_pages, startup_log>>

enumVars == <<soup, unique_items>>

----------------------------------------------------------------------------
(* Bounds of the model.                                                    *)

\* MAX_PAGES is read from the environment (lines 21, 484-490); the model
\* runs the loop with this setting.
MAX_PAGES == 3

\* Most items in unique_items on one page.
MaxItems == 3

\* PhoneSpec inputs: a head of at most MaxHead characters over HeadChars
\* followed by at most MaxTail filler digits.
MaxHead == 3

MaxTail == 9

\* Most characters in the MAX_PAGES environment setting.
MaxEnvLen == 3

----------------------------------------------------------------------------
(* Text helpers.                                                           *)

\* Python None.
None == <<"None">>

Digits == {"0", "1", "2", "3", "4", "5", "6", "7", "8", "9"}

\* Not computed yet.
Unset == <<"unset">>

\* clean_phone_number is not being exercised on its own.
PhoneIdle ==
    /\ inp = Unset
    /\ out1 = Unset
    /\ out2 = Unset

\* s.startswith(p)
StartsWith(s, p) ==
    /\ Len(s) >= Len(p)
    /\ SubSeq(s, 1, Len(p)) = p

\* s[n:]
DropFirst(s, n) == SubSeq(s, n + 1, Len(s))

IsDigit(c) == c \in Digits

\* The characters re.sub(r'[^\d+]', '', s) keeps: digits and every '+'.
KeptChar(c) == IsDigit(c) \/ c = "+"

----------------------------------------------------------------------------
(* clean_phone_number, lines 48-64.                                        *)

clean_phone_number(phone_str) ==
    IF phone_str = None \/ phone_str = <<>> THEN None
    ELSE LET cleaned == SelectSeq(phone_str, KeptChar)
             c1 == IF StartsWith(cleaned, <<"0", "0">>)
                   THEN <<"+">> \o DropFirst(cleaned, 2)
                   ELSE cleaned
             c2 == IF StartsWith(c1, <<"3", "3">>) /\ Len(c1) = 11
                   THEN <<"0">> \o DropFirst(c1, 2)
                   ELSE c1
         IN  c2

----------------------------------------------------------------------------
(* PHONE_REGEX matches, lines 24-35, and the items of a results page.      *)

\* "01 23 45 67 89": local prefix and four groups; 10 digits.
PhFrench == <<"0", "1", " ", "2", "3", " ", "4", "5", " ", "6", "7", " ", "8", "9">>

\* "0033 12 34 56 78": 00 country code and four groups; 12 digits.
PhIntl00 == <<"0", "0", "3", "3", " ", "1", "2", " ", "3", "4", " ", "5", "6", " ", "7", "8">>

\* "+123 456 789 012 345": the longest shape the pattern matches; 15 digits.
PhLong == <<"+", "1", "2", "3", " ", "4", "5", "6", " ", "7", "8", "9", " ",
            "0", "1", "2", " ", "3", "4", "5">>

RawPhones == {PhFrench, PhIntl00, PhLong}

\* <img> attribute values.
SrcHttp == <<"h", "t", "t", "p", "s", ":", "/", "/", "a">>

SrcProtoRel == <<"/", "/", "c", "d", "n">>

\* What an item (one DOM fragment) offers to extract_business_info:
\*   name_tags  texts (after strip) of the first tag each name selector finds,
\*              in selector order, for the selectors that find a tag;
\*   text       PHONE_REGEX.findall over the item's whole text;
\*   sections   PHONE_REGEX.findall over each contact section, in order;
\*   imgs       src-or-data-src of the first tag each img selector finds,
\*              in selector order, for the selectors that find a tag;
\*   raises     processing the item raises (caught at line 377).
NameX == <<"X">>

NameAl == <<"A", "l">>

NameUnknown == <<"u", "n", "k", "n", "o", "w", "n">>

NameTags == {<<>>, <<NameX>>, <<<<>>, NameAl>>, <<NameUnknown>>}

Texts == {<<>>, <<PhFrench>>, <<PhLong, PhIntl00>>, <<PhLong>>}

Sections == {<<>>, <<<<>>, <<PhLong, PhFrench>>>>}

Imgs == {<<>>, <<SrcProtoRel, SrcHttp>>, <<SrcProtoRel>>}

Items == [name_tags : NameTags, text : Texts, sections : Sections, imgs : Imgs]

\* The items of the pages a session is run on: a contact section repeats
\* text of its item, so it holds a match only where the item's text does.
SessionItems ==
    {i \in Items :
        /\ i.sections # <<>> => i.text = <<PhLong>>
        /\ i.imgs # <<SrcProtoRel>>
        /\ i.name_tags = <<NameUnknown>> => i.text \in {<<>>, <<PhFrench>>} /\ i.imgs = <<>>}

----------------------------------------------------------------------------
(* extract_business_info, lines 145-246.                                   *)

RECURSIVE FirstNonEmpty(_)
\* lines 160-165: the text of the first name tag with non-empty text.
FirstNonEmpty(tags) ==
    IF tags = <<>> THEN None
    ELSE IF Head(tags) # <<>> THEN Head(tags)
    ELSE FirstNonEmpty(Tail(tags))

\* line 180 / 193: cleaned_phone and 8 <= len(cleaned_phone) <= 15
PhoneOk(cleaned) ==
    /\ cleaned # None
    /\ cleaned # <<>>
    /\ 8 <= Len(cleaned)
    /\ Len(cleaned) <= 15

RECURSIVE FirstValidPhone(_)
\* lines 176-182: the first match whose cleaned form passes the length test.
FirstValidPhone(matches) ==
    IF matches = <<>> THEN None
    ELSE LET cleaned_phone == clean_phone_number(Head(matches))
         IN  IF PhoneOk(cleaned_phone) THEN cleaned_phone
             ELSE FirstValidPhone(Tail(matches))

RECURSIVE FirstSectionPhone(_)
\* lines 185-197: the first contact section that holds a valid phone.
FirstSectionPhone(sections) ==
    IF sections = <<>> THEN None
    ELSE LET phone == FirstValidPhone(Head(sections))
         IN  IF phone # None THEN phone
             ELSE FirstSectionPhone(Tail(sections))

RECURSIVE PickImage(_, _)
\* lines 200-211: image_link is overwritten by each img tag found until one
\* starts with "http".
PickImage(imgs, image_link) ==
    IF imgs = <<>> THEN image_link
    ELSE IF StartsWith(Head(imgs), <<"h", "t", "t", "p">>) THEN Head(imgs)
    ELSE PickImage(Tail(imgs), Head(imgs))

\* "return None" at line 168, as a record so that it compares with a dict.
NoInfo == [name |-> None, phone |-> None, image |-> None]

\* The dict returned at lines 239-246, or NoInfo.  rating, reviews and
\* category are best-effort fields no later step reads; they are left out
\* of the record.
extract_business_info(item) ==
    LET name == FirstNonEmpty(item.name_tags)
        text_phone == FirstValidPhone(item.text)
        phone == IF text_phone # None THEN text_phone
                 ELSE FirstSectionPhone(item.sections)
    IN  IF name = None \/ Len(name) < 2 THEN NoInfo
        ELSE [name |-> name, phone |-> phone, image |-> PickImage(item.imgs, None)]

\* ExtractSpec: extract_business_info applied to each item of Items.

\* An item with nothing in it, held while the extractor is not exercised.
IdleItem == [name_tags |-> <<>>, text |-> <<>>, sections |-> <<>>, imgs |-> <<>>]

\* No call of extract_business_info has returned yet.
NotExtracted == [name |-> Unset, phone |-> Unset, image |-> Unset]

ExtractIdle ==
    /\ found_item = IdleItem
    /\ business_info = NotExtracted

ExtractInit ==
    /\ found_item \in Items
    /\ business_info = NotExtracted

\* business_info = extract_business_info(item), line 355, for one found item
Extract ==
    /\ business_info = NotExtracted
    /\ business_info' = extract_business_info(found_item)
    /\ UNCHANGED found_item

----------------------------------------------------------------------------
(* is_captcha_page, lines 102-143.                                         *)

\* What the rendered page shows to the block check:
\*   url_marker  "sorry" or "check" occurs in page.url;
\*   title       "phrase": the lower-cased title holds a captcha indicator,
\*               "plain": it holds none, "raises": page.title() raises;
\*   element     a captcha selector or #recaptcha-anchor counts > 0.
PageProbes == [url_marker : BOOLEAN, title : {"plain", "phrase", "raises"}, element : BOOLEAN]

is_captcha_page(page) ==
    IF page.url_marker THEN TRUE
    ELSE IF page.title = "raises" THEN FALSE
    ELSE IF page.title = "phrase" THEN TRUE
    ELSE page.element

\* BlockSpec: is_captcha_page applied to rendered pages, given as the text
\* the function reads (page.url, page.title()) and the text it does not
\* (the body), with the number of elements the captcha selectors resolve to.

\* "sub in s" of Python, on sequences of characters.
Contains(s, sub) ==
    \E i \in 0..(Len(s) - Len(sub)) :
        \A j \in 1..Len(sub) : s[i + j] = sub[j]

UpperCase == <<"A", "B", "C", "D", "E", "F", "G", "H", "I", "J", "K", "L", "M", "N", "O", "P", "Q", "R", "S", "T", "U", "V", "W", "X", "Y", "Z">>

LowerCase == <<"a", "b", "c", "d", "e", "f", "g", "h", "i", "j", "k", "l", "m", "n", "o", "p", "q", "r", "s", "t", "u", "v", "w", "x", "y", "z">>

\* str.lower(), line 110
lower(s) ==
    [i \in 1..Len(s) |->
        IF \E k \in 1..Len(UpperCase) : UpperCase[k] = s[i]
        THEN LowerCase[CHOOSE k \in 1..Len(UpperCase) : UpperCase[k] = s[i]]
        ELSE s[i]]

\* quote_plus(query), line 263: a space becomes '+'; letters are kept.
quote_plus(q) == [i \in 1..Len(q) |-> IF q[i] = " " THEN "+" ELSE q[i]]

\* page.url after goto(BASE_URL.format(start=0)), lines 269 and 290; path is
\* "search", or "sorry/index" when the server redirects to its interstitial.
PageUrl(path, q) ==
    <<"h", "t", "t", "p", "s", ":", "/", "/", "w", "w", "w", ".", "g", "o", "o", "g", "l", "e", ".", "c", "o", "m", "/">> \o path \o <<"?", "q", "=">> \o quote_plus(q)
        \o <<"&", "u", "d", "m", "=", "1", "&", "s", "t", "a", "r", "t", "=", "0">>

\* lines 111-117
captcha_indicators ==
    {<<"c", "a", "p", "t", "c", "h", "a">>,
      <<"n", "o", "t", " ", "a", " ", "r", "o", "b", "o", "t">>,
      <<"u", "n", "u", "s", "u", "a", "l", " ", "t", "r", "a", "f", "f", "i", "c">>,
      <<"r", "o", "b", "o", "t", " ", "c", "h", "e", "c", "k">>,
      <<"v", "e", "r", "i", "f", "i", "c", "a", "t", "i", "o", "n">>}

\* page.title() raises (the page is navigating or closed).
TitleRaises == <<"raises">>

QueryBakery == <<"b", "a", "k", "e", "r", "y", " ", "p", "a", "r", "i", "s">>

QueryCheck == <<"c", "h", "e", "c", "k", " ", "i", "n", " ", "d", "e", "s", "k">>

QuerySorry == <<"s", "o", "r", "r", "y", " ", "c", "a", "f", "e">>

PathSearch == <<"s", "e", "a", "r", "c", "h">>

PathSorry == <<"s", "o", "r", "r", "y", "/", "i", "n", "d", "e", "x">>

TitleResults == <<"b", "a", "k", "e", "r", "y", " ", "-", " ", "G", "o", "o", "g", "l", "e", " ", "S", "e", "a", "r", "c", "h">>

TitleTraffic == <<"O", "u", "r", " ", "s", "y", "s", "t", "e", "m", "s", " ", "h", "a", "v", "e", " ", "d", "e", "t", "e", "c", "t", "e", "d", " ", "U", "n", "u", "s", "u", "a", "l", " ", "T", "r", "a", "f", "f", "i", "c">>

TitleRobot == <<"R", "o", "b", "o", "t", " ", "C", "h", "e", "c", "k">>

BodyResults == <<"r", "e", "s", "u", "l", "t", "s">>

BodySentence == <<"c", "h", "e", "c", "k", "s", " ", "t", "o", " ", "s", "e", "e", " ", "i", "f", " ", "i", "t", "'", "s", " ", "r", "e", "a", "l", "l", "y", " ", "y", "o", "u">>

RenderedPages ==
    [query : {QueryBakery, QueryCheck, QuerySorry},
     path : {PathSearch, PathSorry},
     title : {TitleResults, TitleTraffic, TitleRobot, TitleRaises},
     body : {BodyResults, BodySentence},
     elements : 0..1]

\* What is_captcha_page reads of a rendered page: lines 106, 110-121, 124-139.
Probe(page) ==
    LET url == PageUrl(page.path, page.query)
    IN  [url_marker |-> Contains(url, <<"s", "o", "r", "r", "y">>) \/ Contains(url, <<"c", "h", "e", "c", "k">>),
         title |-> IF page.title = TitleRaises THEN "raises"
                   ELSE IF \E indicator \in captcha_indicators :
                               Contains(lower(page.title), indicator)
                        THEN "phrase"
                        ELSE "plain",
         element |-> page.elements > 0]

\* Python's bool as the variable verdict holds it.
Bool(b) == IF b THEN "True" ELSE "False"

IdlePage ==
    [query |-> <<>>, path |-> PathSearch, title |-> TitleResults,
     body |-> BodyResults, elements |-> 0]

BlockIdle ==
    /\ probe = IdlePage
    /\ verdict = "unset"

BlockInit ==
    /\ probe \in RenderedPages
    /\ verdict = "unset"

\* if is_captcha_page(page):, line 299
Check ==
    /\ verdict = "unset"
    /\ verdict' = Bool(is_captcha_page(Probe(probe)))
    /\ UNCHANGED probe

----------------------------------------------------------------------------
(* Start-up: the module-level configuration, lines 19-21, and the          *)
(* MAX_PAGES check of main, lines 483-490, with a query on the command     *)
(* line.                                                                   *)

EnvChars == {"5", "1", "a", " ", "-"}

\* The values MAX_PAGES may have when it is set.
EnvTexts == UNION {[1..n -> EnvChars] : n \in 0..MaxEnvLen}

\* The default of os.environ.get('MAX_PAGES', '5'), line 21.
DefaultText == <<"5">>

RECURSIVE LStrip(_)
LStrip(s) == IF s # <<>> /\ Head(s) = " " THEN LStrip(Tail(s)) ELSE s

RECURSIVE RStrip(_)
RStrip(s) ==
    IF s # <<>> /\ s[Len(s)] = " " THEN RStrip(SubSeq(s, 1, Len(s) - 1)) ELSE s

\* The digits int() reads: surrounding blanks and one leading '-' set aside.
IntBody(s) ==
    LET t == RStrip(LStrip(s))
    IN  IF t # <<>> /\ Head(t) = "-" THEN Tail(t) ELSE t

\* int(s) does not raise ValueError.
IsIntText(s) ==
    /\ IntBody(s) # <<>>
    /\ \A i \in 1..Len(IntBody(s)) : IsDigit(IntBody(s)[i])

DigitValue(c) ==
    CHOOSE n \in 0..9 : <<"0", "1", "2", "3", "4", "5", "6", "7", "8", "9">>[n + 1] = c

RECURSIVE Decimal(_)
Decimal(ds) ==
    IF ds = <<>> THEN 0
    ELSE 10 * Decimal(SubSeq(ds, 1, Len(ds) - 1)) + DigitValue(ds[Len(ds)])

\* int(s) for a text that is an integer
int(s) ==
    LET t == RStrip(LStrip(s))
    IN  IF Head(t) = "-" THEN 0 - Decimal(IntBody(s)) ELSE Decimal(IntBody(s))

\* The start-up is not being exercised on its own.
StartIdle ==
    /\ environ = None
    /\ startup = "idle"
    /\ max_pages = {}
    /\ startup_log = "none"

StartInit ==
    /\ environ \in EnvTexts \cup {None}
    /\ startup = "import"
    /\ max_pages = {}
    /\ startup_log = "none"

\* line 21, run when the module is loaded: a ValueError of int() is raised
\* at module level, where nothing catches it, and the interpreter ends with
\* a traceback before main is called.
Import ==
    /\ startup = "import"
    /\ LET text == IF environ = None THEN DefaultText ELSE environ
       IN  IF IsIntText(text)
           THEN /\ max_pages' = {int(text)}
                /\ startup' = "main"
           ELSE /\ startup' = "traceback"
                /\ UNCHANGED max_pages
    /\ UNCHANGED <<environ, startup_log>>

\* lines 483-490 of main; scrape_google is called next (line 494).
Configure ==
    /\ startup = "main"
    /\ IF environ = None
       THEN UNCHANGED <<max_pages, startup_log>>
       ELSE IF IsIntText(environ)
       THEN /\ max_pages' = {int(environ)}
            /\ startup_log' = "using"
       ELSE /\ startup_log' = "invalid"
            /\ UNCHANGED max_pages
    /\ startup' = "scrape"
    /\ UNCHANGED environ

----------------------------------------------------------------------------
(* The item enumeration of scrape_google, lines 313-339.                   *)

\* What one selector matches on a page, in document order; an item is
\* given by its serialisation str(item), which is what line 336 hashes.
FoundItems == {<<>>, <<"a">>, <<"b">>, <<"a", "b">>, <<"b", "c">>}

\* soup.select(selector) for three selectors of selectors_to_try, in the
\* order of the list (lines 317-325).
Soups == FoundItems \X FoundItems \X FoundItems

RECURSIVE Extend(_)
\* lines 327-330: items.extend(found_items) for every selector that matched
Extend(selected) ==
    IF selected = <<>> THEN <<>>
    ELSE Head(selected) \o Extend(Tail(selected))

RECURSIVE Unique(_, _)
\* lines 333-339: the items whose hash was not seen before, in order
Unique(items, seen) ==
    IF items = <<>> THEN <<>>
    ELSE IF Head(items) \in seen THEN Unique(Tail(items), seen)
    ELSE <<Head(items)>> \o Unique(Tail(items), seen \cup {Head(items)})

EnumIdle ==
    /\ soup = <<<<>>, <<>>, <<>>>>
    /\ unique_items = Unset

EnumInit ==
    /\ soup \in Soups
    /\ unique_items = Unset

\* lines 313-339 for one page
Enumerate ==
    /\ unique_items = Unset
    /\ unique_items' = Unique(Extend(soup), {})
    /\ UNCHANGED soup

----------------------------------------------------------------------------
(* scrape_google, lines 248-468, and main, lines 470-510.                  *)

PcValues == {"main", "start", "loop", "shot", "extract", "close", "save", "exited", "killed"}

\* sys.argv[1:] as words; main joins them and scrape_google strips the result.
Argvs == {<<>>, <<"">>, <<"bakery", "paris">>}

NonBlank(w) == w # ""

\* ' '.join(argv).strip(), as the words left.
StripJoin(argv) == SelectSeq(argv, NonBlank)

NoFile == [kind |-> "none"]

\* A variant that compares the candidate with the last accepted record only.
IsDuplicate_last_only(res, info) ==
    /\ res # <<>>
    /\ res[Len(res)].name = info.name
    /\ res[Len(res)].phone = info.phone

\* lines 359-364: some accepted record has the candidate's name and phone.
IsDuplicate(res, info) ==
    \E i \in 1..Len(res) : res[i].name = info.name /\ res[i].phone = info.phone

Qualifies(info) ==
    /\ info # NoInfo
    /\ info.phone # None /\ info.phone # <<>>
    /\ info.name # None /\ info.name # <<>>

\* A variant that lets a duplicate take the place of the record it repeats.
AcceptRecord_replace(res, info, q, p) ==
    LET rec == [name |-> info.name, phone |-> info.phone, image |-> info.image,
                query |-> q, page |-> p + 1]
    IN  IF ~Qualifies(info) THEN res
        ELSE IF IsDuplicate(res, info)
        THEN [i \in 1..Len(res) |->
                 IF res[i].name = info.name /\ res[i].phone = info.phone THEN rec ELSE res[i]]
        ELSE Append(res, rec)

\* lines 355-376: results after one item was processed on page index p.
AcceptRecord(res, info, q, p) ==
    IF Qualifies(info) /\ ~IsDuplicate(res, info)
    THEN Append(res, [name |-> info.name, phone |-> info.phone, image |-> info.image,
                      query |-> q, page |-> p + 1])
    ELSE res

\* lines 412-420 and 449-457: the metadata written with the results (the
\* timestamp is left out).
Metadata(q, res, pages) ==
    IF res # <<>>
    THEN [query |-> q, total_pages_scraped |-> pages, total_results |-> Len(res),
          success |-> TRUE]
    ELSE [query |-> q, total_pages_scraped |-> pages, total_results |-> 0,
          success |-> FALSE, error |-> "No results found"]

\* What a finished session shows to its caller: the file written, the
\* filename returned (line 494) and the exit status (lines 507-510).
Report == [file |-> file, returned |-> returned, exit_code |-> exit_code]

NoPrev == [ending |-> "none"]

SessionInit ==
    /\ pc = "main"
    /\ query \in Argvs
    /\ page_num = 0
    /\ remaining = 0
    /\ results = <<>>
    /\ successful_pages = 0
    /\ log = "none"
    /\ navigated = <<>>
    /\ starts = <<>>
    /\ slept = 0
    /\ offered = {}
    /\ blockedAt = {}
    /\ ending = "running"
    /\ file = NoFile
    /\ returned = None
    /\ exit_code = "running"

\* A main that would exit on the output file's name instead of the records.
ReturnToMain_by_filename(res, filename) ==
    /\ returned' = filename
    /\ exit_code' = IF filename # None THEN "0" ELSE "1"
    /\ pc' = "exited"

\* scrape_google returns (res, filename) and main exits on it, lines 494-510.
ReturnToMain(res, filename) ==
    /\ returned' = filename
    /\ exit_code' = IF res # <<>> THEN "0" ELSE "1"
    /\ pc' = "exited"

\* lines 476-481 and 253-257: no argument, or a query that strips to nothing.
Main ==
    /\ pc = "main"
    /\ IF query = <<>>
       THEN /\ exit_code' = "1"
            /\ pc' = "exited"
            /\ ending' = "noquery"
            /\ log' = "no query"
            /\ UNCHANGED <<query, returned>>
       ELSE IF StripJoin(query) = <<>>
       THEN /\ query' = StripJoin(query)
            /\ log' = "empty query"
            /\ ending' = "noquery"
            /\ ReturnToMain(results, None)
       ELSE /\ query' = StripJoin(query)
            /\ log' = "starting"
            /\ pc' = "start"
            /\ UNCHANGED <<ending, returned, exit_code>>
    /\ UNCHANGED <<page_num, remaining, results, successful_pages,
                   navigated, blockedAt, file, prev>>
    /\ UNCHANGED pageVars
    /\ UNCHANGED pureVars

\* The "for" statement takes the next index, or the loop is over (line 288).
NextPage ==
    /\ page_num' = page_num + 1
    /\ IF page_num + 1 < MAX_PAGES
       THEN pc' = "loop" /\ UNCHANGED ending
       ELSE pc' = "close" /\ ending' = "exhausted"

\* lines 272-286: the browser is launched; a failure is fatal (line 398).
Launch ==
    /\ pc = "start"
    /\ \E ok \in BOOLEAN :
         IF ok
         THEN /\ IF MAX_PAGES > 0
                 THEN pc' = "loop" /\ UNCHANGED ending
                 ELSE pc' = "close" /\ ending' = "exhausted"
              /\ UNCHANGED <<log, returned, exit_code>>
         ELSE /\ log' = "fatal"
              /\ ending' = "error"
              /\ ReturnToMain(results, None)
    /\ UNCHANGED <<query, page_num, remaining, results, successful_pages,
                   navigated, blockedAt, file, prev>>
    /\ UNCHANGED pageVars
    /\ UNCHANGED pureVars

\* A variant that takes the offset of the page after.
StartOffset_next(p) == (p + 1) * 10

\* start = page_num * 10, line 289
StartOffset(p) == p * 10

\* delay = 3 + (page_num * 0.5), line 385, in half-seconds
Delay(p) == 6 + p

\* A variant that tries the same page again after a timeout.
OnTimeout_retry ==
    /\ log' = "timeout"
    /\ pc' = "loop"
    /\ UNCHANGED <<page_num, ending, remaining, blockedAt>>

\* lines 388-390: PlaywrightTimeoutError from the page body: log, continue.
OnTimeout ==
    /\ log' = "timeout"
    /\ NextPage
    /\ UNCHANGED <<remaining, blockedAt>>

\* lines 391-393: any other Exception from the page body: log, continue.
OnPageError ==
    /\ log' = "error"
    /\ NextPage
    /\ UNCHANGED <<remaining, blockedAt>>

\* lines 300-302: the block check is positive.
OnCaptcha ==
    /\ log' = "captcha"
    /\ blockedAt' = blockedAt \cup {page_num}
    /\ pc' = "shot"
    /\ UNCHANGED <<page_num, remaining, ending>>

\* lines 343-349: no items; the debug screenshot is taken (or raises, which
\* line 391 catches) and the loop goes on.
OnNoItems(shot_ok) ==
    /\ log' = IF shot_ok THEN "no items" ELSE "error"
    /\ NextPage
    /\ UNCHANGED <<remaining, blockedAt>>

\* line 341 and 351: n unique items are about to be processed.
OnItems(n) ==
    /\ log' = "found items"
    /\ remaining' = n
    /\ pc' = "extract"
    /\ UNCHANGED <<page_num, blockedAt, ending>>

\* lines 289-351: one pass of the loop body up to the item loop.
GotoPage ==
    /\ pc = "loop"
    /\ navigated' = Append(navigated, page_num)
    /\ starts' = Append(starts, StartOffset(page_num))
    /\ slept' = 0
    /\ \E outcome \in {"timeout", "error", "loaded"} :
         \/ /\ outcome = "timeout"
            /\ OnTimeout
         \/ /\ outcome = "error"
            /\ OnPageError
         \/ /\ outcome = "loaded"
            /\ \E page \in PageProbes, n \in 0..MaxItems, shot_ok \in BOOLEAN :
                 IF is_captcha_page(page) THEN OnCaptcha
                 ELSE IF n = 0 THEN OnNoItems(shot_ok)
                 ELSE OnItems(n)
    /\ UNCHANGED <<query, results, successful_pages, offered,
                   file, returned, exit_code, prev>>
    /\ UNCHANGED pureVars

\* lines 303-304: the screenshot of the block page, then break; a screenshot
\* that raises is caught at line 391, whose "continue" takes the next page.
Shot ==
    /\ pc = "shot"
    /\ \E shot_ok \in BOOLEAN :
         IF shot_ok
         THEN /\ pc' = "close"
              /\ ending' = "blocked"
              /\ UNCHANGED <<page_num, log>>
         ELSE /\ log' = "error"
              /\ NextPage
    /\ UNCHANGED <<query, remaining, results, successful_pages,
                   navigated, blockedAt, file, returned, exit_code, prev>>
    /\ UNCHANGED pageVars
    /\ UNCHANGED pureVars

\* What the item loop logs for one item: lines 374, 376, 378.
ItemLog(res, info) ==
    IF ~Qualifies(info) THEN "skipped"
    ELSE IF IsDuplicate(res, info) THEN "duplicate"
    ELSE "found"

\* lines 353-386: one item of unique_items, drawn from S; after the last one
\* the page is counted, the delay is slept and the loop goes on.
ExtractItemFrom(S) ==
    /\ pc = "extract"
    /\ remaining > 0
    /\ \E item \in S, raises \in BOOLEAN :
         LET info == extract_business_info(item)
         IN  /\ raises => item = CHOOSE i \in S : TRUE   \* whichever item raises
             /\ results' = IF raises THEN results
                           ELSE AcceptRecord(results, info, query, page_num)
             /\ offered' = IF ~raises /\ Qualifies(info)
                           THEN offered \cup {<<info.name, info.phone>>}
                           ELSE offered
             /\ IF remaining = 1
                THEN /\ successful_pages' = successful_pages + 1
                     /\ log' = "page done"
                     /\ slept' = Delay(page_num)
                     /\ NextPage
                ELSE /\ log' = IF raises THEN "item error" ELSE ItemLog(results, info)
                     /\ UNCHANGED <<pc, page_num, successful_pages, ending, slept>>
    /\ remaining' = remaining - 1
    /\ UNCHANGED <<query, navigated, starts, blockedAt, file, returned, exit_code, prev>>
    /\ UNCHANGED pureVars

ExtractItem == ExtractItemFrom(SessionItems)

\* lines 395-400: browser.close(); if it raises, the outer handler returns
\* (results, None) without reaching the persistence step.
CloseBrowser ==
    /\ pc = "close"
    /\ \E ok \in BOOLEAN :
         IF ok
         THEN /\ pc' = "save"
              /\ log' = "completed"
              /\ UNCHANGED <<ending, returned, exit_code>>
         ELSE /\ log' = "fatal"
              /\ ending' = "error"
              /\ ReturnToMain(results, None)
    /\ UNCHANGED <<query, page_num, remaining, results, successful_pages,
                   navigated, blockedAt, file, prev>>
    /\ UNCHANGED pageVars
    /\ UNCHANGED pureVars

\* lines 404-468: the persistence step.  write is "ok" (first name), "alt"
\* (first name fails, results-<now>.json succeeds) or "fail".
Save ==
    /\ pc = "save"
    /\ \E write \in {"ok", "alt", "fail"} :
         LET doc == [metadata |-> Metadata(query, results, successful_pages), results |-> results]
         IN  IF results # <<>>
             THEN /\ file' = IF write = "fail" THEN NoFile
                             ELSE [kind |-> IF write = "ok" THEN "results" ELSE "results-alt",
                                   doc |-> doc]
                  /\ ReturnToMain(results, IF write = "fail" THEN None
                                           ELSE IF write = "ok" THEN <<"query-now.json">>
                                           ELSE <<"results-now.json">>)
             ELSE /\ write # "alt"
                  /\ file' = IF write = "fail" THEN NoFile
                             ELSE [kind |-> "empty", doc |-> doc]
                  /\ ReturnToMain(results, None)
    /\ log' = "saved"
    /\ UNCHANGED <<query, page_num, remaining, results, successful_pages,
                   navigated, blockedAt, ending, prev>>
    /\ UNCHANGED pageVars
    /\ UNCHANGED pureVars

\* KeyboardInterrupt is no Exception: neither handler (lines 391, 398) takes
\* it and main has none, so the process ends where it stands.
Interrupt ==
    /\ pc \in {"start", "loop", "shot", "extract", "close", "save"}
    /\ pc' = "killed"
    /\ exit_code' = "SIGINT"
    /\ ending' = "interrupted"
    /\ UNCHANGED <<query, page_num, remaining, results, successful_pages,
                   log, navigated, blockedAt, file, returned, prev>>
    /\ UNCHANGED pageVars
    /\ UNCHANGED pureVars

Next ==
    \/ Main
    \/ Launch
    \/ GotoPage
    \/ Shot
    \/ ExtractItem
    \/ CloseBrowser
    \/ Save

Init ==
    /\ SessionInit /\ PhoneIdle /\ ExtractIdle /\ BlockIdle /\ EnumIdle /\ StartIdle
    /\ prev = NoPrev

Spec == Init /\ [][Next]_vars

\* The session with an external interruption possible between steps.
NextInterruptible ==
    \/ Next
    \/ Interrupt

SpecInterrupt == Init /\ [][NextInterruptible]_vars

\* The session as the interpreter runs it: a statement that can be executed
\* is executed.
FairSpec == Spec /\ WF_vars(Next)

----------------------------------------------------------------------------
(* Two sessions run back to back (main is started twice); prev keeps how   *)
(* the first one ended and what it reported.                               *)

\* One qualifying item and one without a phone.
PairItems ==
    {i \in Items : /\ i.name_tags = <<<<>>, NameAl>>
                   /\ i.text \in {<<>>, <<PhFrench>>}
                   /\ i.sections = <<>>
                   /\ i.imgs = <<>>}

ExtractPairItem == ExtractItemFrom(PairItems)

\* The process is started again after the first session exited.
SecondRun ==
    /\ pc = "exited"
    /\ prev = NoPrev
    /\ prev' = [ending |-> ending, report |-> Report]
    /\ pc' = "main"
    /\ query' \in Argvs
    /\ page_num' = 0
    /\ remaining' = 0
    /\ results' = <<>>
    /\ successful_pages' = 0
    /\ log' = "none"
    /\ navigated' = <<>>
    /\ starts' = <<>>
    /\ slept' = 0
    /\ offered' = {}
    /\ blockedAt' = {}
    /\ ending' = "running"
    /\ file' = NoFile
    /\ returned' = None
    /\ exit_code' = "running"
    /\ UNCHANGED pureVars

PairNext ==
    \/ Main
    \/ Launch
    \/ GotoPage
    \/ Shot
    \/ ExtractPairItem
    \/ CloseBrowser
    \/ Save
    \/ SecondRun

PairSpec == Init /\ [][PairNext]_vars

----------------------------------------------------------------------------
(* PhoneSpec: clean_phone_number applied to bounded inputs, and applied    *)
(* again to its own result.                                                *)

HeadChars == {"0", "1", "3", "+", " "}

RECURSIVE SeqsUpTo(_, _)
\* All sequences over S of length at most n.
SeqsUpTo(S, n) ==
    IF n = 0 THEN {<<>>}
    ELSE LET shorter == SeqsUpTo(S, n - 1)
         IN  shorter \cup {Append(s, c) : s \in {t \in shorter : Len(t) = n - 1}, c \in S}

\* k copies of the digit "1".
Filler(k) == [i \in 1..k |-> "1"]

PhoneInputs == {h \o Filler(k) : h \in SeqsUpTo(HeadChars, MaxHead), k \in 0..MaxTail}

PhoneInit ==
    /\ inp \in PhoneInputs
    /\ out1 = Unset
    /\ out2 = Unset

\* cleaned = clean_phone_number(match)
Normalize ==
    /\ out1 = Unset
    /\ out1' = clean_phone_number(inp)
    /\ UNCHANGED <<inp, out2>>

\* clean_phone_number applied to a value it returned
Renormalize ==
    /\ out1 # Unset
    /\ out2 = Unset
    /\ out2' = clean_phone_number(out1)
    /\ UNCHANGED <<inp, out1>>

PhoneNext ==
    \/ Normalize /\ UNCHANGED <<sessionVars, extractVars, blockVars, enumVars, startVars>>
    \/ Renormalize /\ UNCHANGED <<sessionVars, extractVars, blockVars, enumVars, startVars>>

PhoneSpecInit ==
    /\ PhoneInit /\ SessionInit /\ query = <<>> /\ prev = NoPrev
    /\ ExtractIdle /\ BlockIdle /\ EnumIdle /\ StartIdle

\* The session does not run in the specifications of one function.
SessionIdle == SessionInit /\ query = <<>> /\ prev = NoPrev

ExtractNext ==
    Extract /\ UNCHANGED <<sessionVars, phoneVars, blockVars, enumVars, startVars>>

BlockNext ==
    Check /\ UNCHANGED <<sessionVars, phoneVars, extractVars, enumVars, startVars>>

EnumNext ==
    Enumerate /\ UNCHANGED <<sessionVars, phoneVars, extractVars, blockVars, startVars>>

BlockSpecInit ==
    BlockInit /\ SessionIdle /\ PhoneIdle /\ ExtractIdle /\ EnumIdle /\ StartIdle

BlockSpec == BlockSpecInit /\ [][BlockNext]_vars

ExtractSpecInit ==
    ExtractInit /\ SessionIdle /\ PhoneIdle /\ BlockIdle /\ EnumIdle /\ StartIdle

ExtractSpec == ExtractSpecInit /\ [][ExtractNext]_vars

EnumSpecInit ==
    EnumInit /\ SessionIdle /\ PhoneIdle /\ ExtractIdle /\ BlockIdle /\ StartIdle

EnumSpec == EnumSpecInit /\ [][EnumNext]_vars

StartNext ==
    \/ Import /\ UNCHANGED <<sessionVars, phoneVars, extractVars, blockVars, enumVars>>
    \/ Configure /\ UNCHANGED <<sessionVars, phoneVars, extractVars, blockVars, enumVars>>

StartSpecInit ==
    StartInit /\ SessionIdle /\ PhoneIdle /\ ExtractIdle /\ BlockIdle /\ EnumIdle

StartSpec == StartSpecInit /\ [][StartNext]_vars

PhoneSpec == PhoneSpecInit /\ [][PhoneNext]_vars

----------------------------------------------------------------------------
(* Properties.                                                             *)

\* Number of digits in s.
DigitCount(s) == Len(SelectSeq(s, IsDigit))

NamePhonePairs == {<<results[i].name, results[i].phone>> : i \in 1..Len(results)}

\* C1: no two accepted records share both name and phone: the number of
\* distinct (name, phone) pairs equals the number of accepted records.
C1_UniqueByNamePhone == Cardinality(NamePhonePairs) = Len(results)

\* A duplicate was just dropped while two records with the same name and
\* different phones are held.
C1_Witness ==
    /\ log = "duplicate"
    /\ \E i, j \in 1..Len(results) :
         /\ i < j
         /\ results[i].name = results[j].name
         /\ results[i].phone # results[j].phone

\* C2: the accepted list is append-only and in discovery order: every step
\* leaves the list as it was or extends it at the end, so an accepted
\* record keeps its position and fields and a later duplicate is dropped.
C2_AppendOnly ==
    [][/\ Len(results') >= Len(results)
       /\ SubSeq(results', 1, Len(results)) = results]_vars

\* A, then B, then a repeat of A on a later page: the list is still [A, B].
C2_Witness ==
    /\ log = "duplicate"
    /\ Len(results) = 2
    /\ results[1].page < page_num + 1
    /\ results[1].phone # results[2].phone

\* C3: every accepted record has a phone of 8 to 15 digits and a name that
\* is non-empty and not the sentinel "unknown".
C3_AcceptedValid ==
    \A i \in 1..Len(results) :
        /\ results[i].phone # None
        /\ DigitCount(results[i].phone) >= 8
        /\ DigitCount(results[i].phone) <= 15
        /\ results[i].name # <<>>
        /\ results[i].name # None
        /\ results[i].name # NameUnknown

\* C4: once the block check was positive on a page, that page is the last
\* one navigated, none of its items is extracted and the loop is not
\* entered again.
C4_BlockStops ==
    blockedAt # {} =>
        /\ navigated[Len(navigated)] \in blockedAt
        /\ pc \notin {"loop", "extract"}

\* C5: the report of a session ended by a block hit differs from the report
\* of a session that ran out of pages or ended in a fatal error (stated for
\* a blocked session whose write to DATA_DIR did not fail).
C5_BlockedDistinct ==
    (/\ prev # NoPrev
     /\ pc = "exited"
     /\ prev.ending = "blocked"
     /\ prev.report.file # NoFile
     /\ ending \in {"exhausted", "error"})
    => prev.report # Report

\* C6: however the driver loop ended, a non-empty record list was written
\* before the session returned, and an empty one left an empty-result file
\* with success = false.
C6_AlwaysPersisted ==
    (pc = "exited" /\ ending \in {"exhausted", "blocked", "error"}) =>
        IF results # <<>>
        THEN /\ file.kind \in {"results", "results-alt"}
             /\ file.doc.results = results
        ELSE /\ file.kind = "empty"
             /\ file.doc.metadata.success = FALSE

\* C7: a timeout on page p is a skipped page: the records and the count of
\* completed pages are as before, the loop index moves to p + 1, the same
\* index is never navigated twice, and the session goes on (or ends as
\* exhausted after the last page), never as a fatal error.
C7_TimeoutSkipsPage ==
    [][(navigated' # navigated) =>
        /\ \A i \in 1..Len(navigated) : navigated[i] # navigated'[Len(navigated')]
        /\ (log' = "timeout") =>
              /\ results' = results
              /\ successful_pages' = successful_pages
              /\ page_num' = page_num + 1
              /\ pc' = IF page_num + 1 < MAX_PAGES THEN "loop" ELSE "close"
              /\ ending' \in {"running", "exhausted"}
              /\ exit_code' = "running"]_vars

\* A page timed out after records were accepted and the loop goes on.
C7_Witness ==
    /\ log = "timeout"
    /\ pc = "loop"
    /\ results # <<>>
    /\ Len(navigated) = page_num

\* C8: a session interrupted after records were accepted has written them.
C8_InterruptPersists ==
    (pc = "killed" /\ results # <<>>) =>
        /\ file.kind \in {"results", "results-alt"}
        /\ file.doc.results = results

\* C9: normalising a normalised phone changes nothing, for every input
\* whose normalised form is present (neither None nor empty).
C9_Idempotent ==
    (out2 # Unset /\ out1 # None /\ out1 # <<>>) => out2 = out1

\* C10: the normalised phone is digits with at most one '+', and that one
\* in first position; an input whose kept characters start with 00 comes
\* out starting with '+'.
C10_DigitsLeadingPlus ==
    (out1 # Unset /\ out1 # None) =>
        /\ \A i \in 1..Len(out1) : IsDigit(out1[i]) \/ (i = 1 /\ out1[i] = "+")
        /\ StartsWith(SelectSeq(inp, KeptChar), <<"0", "0">>) => StartsWith(out1, <<"+">>)

\* C11: the length band is measured in digits: with a usable name, a first
\* phone match of 8 to 15 digits (after stripping) is the record's phone,
\* with or without a leading '+', and no phone outside the band is kept.
C11_BandInDigits ==
    (business_info # NotExtracted /\ business_info # NoInfo /\ found_item.text # <<>>) =>
        LET cleaned == clean_phone_number(Head(found_item.text))
        IN  /\ (DigitCount(cleaned) >= 8 /\ DigitCount(cleaned) <= 15) => business_info.phone = cleaned
            /\ business_info.phone # None =>
                  (DigitCount(business_info.phone) >= 8 /\ DigitCount(business_info.phone) <= 15)

\* C14: the image of every extracted record is absent or an absolute URL;
\* a protocol-relative source never comes out with its leading "//".
C14_ImageAbsolute ==
    (business_info # NotExtracted /\ business_info # NoInfo) =>
        \/ business_info.image = None
        \/ /\ StartsWith(business_info.image, <<"h", "t", "t", "p">>)
           /\ ~StartsWith(business_info.image, <<"/", "/">>)

\* The sentence-level block phrase a page text may hold.
TextBlockPhrases == {BodySentence}

\* C12: the block verdict is true exactly when one of four checks matches:
\* the marker in the URL, a block phrase in the lower-cased title, a
\* sentence-level block phrase in the page text, a challenge element.
C12_FourChecks ==
    verdict # "unset" =>
        (verdict = "True" <=>
            \/ Probe(probe).url_marker
            \/ Probe(probe).title = "phrase"
            \/ \E phrase \in TextBlockPhrases : Contains(lower(probe.body), phrase)
            \/ probe.elements > 0)

\* C19: a results page with no block phrase in its title and no challenge
\* element is not blocked, whatever the words of the query.
C19_QueryNeverBlocks ==
    (/\ verdict # "unset"
     /\ probe.path = PathSearch
     /\ probe.title = TitleResults
     /\ probe.elements = 0) => verdict = "False"

\* C15: on every terminal path of the session the process has exited with
\* the success code exactly when the session produced at least one record.
C15_ExitCodeByRecords ==
    pc = "exited" =>
        /\ exit_code \in {"0", "1"}
        /\ exit_code = "0" <=> results # <<>>

\* A fatal error after records were accepted: no file, success code.
C15_Witness ==
    /\ pc = "exited"
    /\ ending = "error"
    /\ results # <<>>
    /\ returned = None
    /\ exit_code = "0"

\* C16: only the items of the first selector that matched are to be
\* processed: the page's items are exactly that selector's items.
C16_FirstStrategyWins ==
    unique_items # Unset =>
        \A k \in 1..Len(soup) :
            (soup[k] # <<>> /\ \A j \in 1..(k - 1) : soup[j] = <<>>) =>
                unique_items = soup[k]

\* C17: a navigation to a page after the first comes after the delay of the
\* page before it, 3 s plus half a second per page index, whatever that page
\* yielded.
C17_DelayBeforeNavigation ==
    (pc = "loop" /\ page_num > 0) => slept = Delay(page_num - 1)

\* The loop is over.
LoopLeft == pc \in {"close", "save"} \/ (pc = "exited" /\ navigated # <<>>)

\* C18: the loop terminates after at most MAX_PAGES navigations; the page
\* indexes navigated are 0, 1, 2, ... in this order, each once, each with
\* the offset index * 10, and when the loop is over either all indexes
\* below MAX_PAGES were navigated or the last one navigated was a block hit.
C18_LoopTerminates ==
    /\ [](/\ Len(navigated) <= MAX_PAGES
          /\ Len(starts) = Len(navigated)
          /\ \A i \in 1..Len(navigated) :
                 navigated[i] = i - 1 /\ starts[i] = navigated[i] * 10
          /\ LoopLeft =>
                 \/ Len(navigated) = MAX_PAGES
                 \/ navigated[Len(navigated)] \in blockedAt)
    /\ <>(pc = "exited")

\* All pages were navigated though some yielded no items and some timed out.
C18_Witness ==
    /\ pc = "exited"
    /\ ending = "exhausted"
    /\ Len(navigated) = MAX_PAGES
    /\ successful_pages = 1
    /\ blockedAt = {}

\* C20: after a positive block check on page p no page after p is navigated,
\* whether the screenshot of the block page succeeds or raises.
C20_NoNavigationAfterBlock ==
    \A p \in blockedAt : \A i \in 1..Len(navigated) : navigated[i] <= p

\* The accepted list holds one record for each (name, phone) pair of the
\* qualifying items processed so far, and no other record.
RecordsAreOffered ==
    /\ NamePhonePairs = offered
    /\ Len(results) = Cardinality(offered)

\* C13: with no block and no page failure the accepted list holds exactly
\* one record per distinct (name, phone) pair of the qualifying items of
\* the pages passed, and every page passed (its items processed, or no item
\* on it) adds one to the count of completed pages.
C13_PagesAccumulate ==
    /\ []RecordsAreOffered
    /\ [][(page_num' = page_num + 1 /\ log' \in {"no items", "page done"}) =>
            successful_pages' = successful_pages + 1]_vars

\* C21: when MAX_PAGES is set to a text that is no integer, start-up does
\* not end in a traceback: main logs the warning and scrape_google is
\* called with the default page limit.
C21_BadLimitFallsBack ==
    (environ # None /\ ~IsIntText(environ)) =>
        /\ startup # "traceback"
        /\ startup = "scrape" =>
              /\ startup_log = "invalid"
              /\ max_pages = {int(DefaultText)}

====
